---- MODULE Spec2Model ----
(***************************************************************************)
(* Model of @mag123c/nestjs-stdschema: the StandardValidationPipe          *)
(* (src/src/pipes/standard-validation.pipe.ts), the DTO factory and the    *)
(* response serializer, together with the standard-schema validators the   *)
(* end-to-end tests bind to them.                                          *)
(***************************************************************************)
EXTENDS Integers, Sequences, FiniteSets, TLC

VARIABLES args,   \* the arguments the pipe was constructed with
          pipe,   \* the pipe instance: its `schema` and `options` fields
          classes, \* the classes of the application: static schema, parent
                   \* and decorator metadata of each
          calls,  \* the transform() invocations, one per call slot
          resp    \* the response pipeline of one handler invocation

vars == <<args, pipe, classes, calls, resp>>

\* ------------------------------------------------------------------------
\* Bounds
\* ------------------------------------------------------------------------

\* number of call slots of the pipe instance
MaxCalls == 2

\* longest collection a handler returns
MaxElems == 2

\* ------------------------------------------------------------------------
\* JavaScript values
\* ------------------------------------------------------------------------

\* the value `undefined`, where a name stands for a schema or a type
Undefined == "undefined"

\* a record with no field
Empty == [n \in {} |-> 0]

\* a plain object holding the given fields
Obj(f) == [t |-> "obj", f |-> f]

\* a value that is not an object (a number sent as the request body)
Prim == [t |-> "prim"]

\* the request bodies and handler results the tests send
Values ==
  { Obj(("name" :> "John") @@ ("email" :> "john@example.com")),
    Obj(("name" :> "Jane") @@ ("email" :> "jane@example.com")
          @@ ("password" :> "secret2")),
    Obj(("name" :> "John") @@ ("email" :> "invalid-email")),
    Obj(Empty),
    Prim }

\* the field values no schema of the tests accepts: an empty string and a
\* malformed address
Malformed == {"", "invalid-email"}

\* ------------------------------------------------------------------------
\* Standard-schema validators
\* ------------------------------------------------------------------------

\* the schemas the tests define: the fields each declares, in order, whether
\* its issue paths are made of compound segments ({key}) or of raw keys, and
\* whether an issue about the whole value carries a path at all
SchemaDef(s) ==
  CASE s = "UserZodSchema" ->
         [fields |-> <<"name", "email">>, compound |-> FALSE, rootPath |-> TRUE]
    [] s = "UserValibotSchema" ->
         [fields |-> <<"email", "password">>, compound |-> TRUE, rootPath |-> FALSE]

Schemas == {"UserZodSchema", "UserValibotSchema"}

\* one segment of an issue path as the validator reports it
Segment(s, k) == IF SchemaDef(s).compound THEN [key |-> k] ELSE [raw |-> k]

\* an issue: a message and an optional path
Issue(msg, hasPath, path) ==
  IF hasPath THEN [message |-> msg, path |-> path] ELSE [message |-> msg]

RECURSIVE FieldIssues(_, _, _)
\* the issues of the declared fields from the i-th on, in declaration order
FieldIssues(s, f, i) ==
  LET fields == SchemaDef(s).fields IN
  IF i > Len(fields) THEN <<>>
  ELSE LET k == fields[i]
           here == IF k \notin DOMAIN f
                     THEN <<Issue("Required", TRUE, <<Segment(s, k)>>)>>
                   ELSE IF f[k] \in Malformed
                     THEN <<Issue("Invalid " \o k, TRUE, <<Segment(s, k)>>)>>
                   ELSE <<>>
       IN here \o FieldIssues(s, f, i + 1)

\* the declared fields of an object; the undeclared ones are dropped
Strip(s, f) ==
  LET fields == SchemaDef(s).fields
      keep == {fields[i] : i \in DOMAIN fields} \cap DOMAIN f
  IN [k \in keep |-> f[k]]

\* how a validate entry point hands over its outcome: returned directly, as
\* a promise that resolves to it, by throwing, as a promise that rejects, or
\* as a promise that never settles
StubDeliveries == {"sync", "async", "throws", "rejects", "never"}

\* the outcomes the contract lets validate produce: {value}, {issues: [..]},
\* {issues: []}, {value, issues: undefined}, {value, issues: null} and
\* {value, issues: [..]}
StubOutcomes ==
  {"success", "issues", "emptyIssues", "undefinedIssues", "nullIssues",
   "issuesAndValue"}

\* what the stub schemas do: an outcome handed over directly or through a
\* promise, or no outcome at all
StubScripts ==
  [delivery : {"sync", "async"}, outcome : StubOutcomes]
    \cup [delivery : {"throws", "rejects", "never"}, outcome : {"none"}]

\* a schema whose validate hands over the named outcome in the named way
StubSchema(delivery, outcome) == "Stub/" \o delivery \o "/" \o outcome

StubSchemas == {StubSchema(sc.delivery, sc.outcome) : sc \in StubScripts}

\* the script of a stub schema
Stub(s) == CHOOSE sc \in StubScripts : StubSchema(sc.delivery, sc.outcome) = s

\* the value of the stubs' success outcome
StubValue == Obj(("parsed" :> "yes"))

\* the issues the stubs report, in this order
StubIssues ==
  <<[message |-> "first", path |-> <<[raw |-> "a"]>>],
    [message |-> "second"]>>

\* the outcome a stub schema produces
StubOutcome(s) ==
  LET o == Stub(s).outcome IN
  CASE o = "success"         -> [value |-> StubValue]
    [] o = "issues"          -> [issues |-> [list |-> StubIssues]]
    [] o = "emptyIssues"     -> [issues |-> [list |-> <<>>]]
    [] o = "undefinedIssues" -> [value |-> StubValue,
                                 issues |-> [nullish |-> "undefined"]]
    [] o = "nullIssues"      -> [value |-> StubValue,
                                 issues |-> [nullish |-> "null"]]
    [] o = "issuesAndValue"  -> [value |-> StubValue,
                                 issues |-> [list |-> StubIssues]]

\* how the validate entry point of a schema hands over its outcome; the
\* validators of the tests return it directly
Delivery(s) == IF s \in StubSchemas THEN Stub(s).delivery ELSE "sync"

\* the error a failing validate throws or rejects with
ValidatorError == [name |-> "Error", message |-> "validator failed"]

\* a truthy value that is no standard schema: it has no '~standard'
NotASchema == "NotASchema"

\* schema['~standard'] is there
HasStandard(s) == s # NotASchema

\* reading .validate of the undefined schema['~standard']
TypeError ==
  [name |-> "TypeError",
   message |-> "Cannot read properties of undefined (reading 'validate')"]

\* schema['~standard'].validate(value): a success outcome {value} or a
\* failure outcome {issues}
Validate(s, v) ==
  IF s \in StubSchemas THEN StubOutcome(s)
  ELSE IF v.t # "obj"
    THEN [issues |-> [list |-> <<Issue("Expected object",
                                        SchemaDef(s).rootPath, <<>>)>>]]
  ELSE LET is == FieldIssues(s, v.f, 1) IN
       IF is # <<>> THEN [issues |-> [list |-> is]]
       ELSE [value |-> Obj(Strip(s, v.f))]

\* ------------------------------------------------------------------------
\* Types: the argument's metatype and the expectedType option
\* ------------------------------------------------------------------------

\* the wrapper types of line 133-139
Primitives == {"String", "Boolean", "Number", "Array", "Object"}

\* a DTO factory that hands the class a copy of the schema
createStandardDto_Clones(s) == [schema |-> "copy of " \o s, parent |-> Undefined]

\* createStandardDto(schema): a class whose static `schema` is the schema
createStandardDto(s) == [schema |-> s, parent |-> Undefined]

\* class X extends P {}: a class with no static of its own
Extends(p) == [parent |-> p]

\* @Schema(s) class X {}: a class with the schema as decorator metadata
SchemaDecorator(s, cls) == cls @@ [meta |-> s]

\* the classes of the applications under test
ClassDef(t) ==
  CASE t = "PlainClass"   -> [parent |-> Undefined]
    [] t = "UserZodDto"   -> createStandardDto("UserZodSchema")
    [] t = "SubUserZodDto" -> Extends("UserZodDto")
    [] t = "DecoratedDto" -> SchemaDecorator("UserValibotSchema",
                                             [parent |-> Undefined])
    [] t = "BothDto"      -> SchemaDecorator("UserValibotSchema",
                                             createStandardDto("UserZodSchema"))
    [] t = "UserValibotDto" -> createStandardDto("UserValibotSchema")

Classes ==
  {"PlainClass", "UserZodDto", "SubUserZodDto", "DecoratedDto", "BothDto",
   "UserValibotDto"}

\* what a metatype can be: absent, a wrapper type or a class
Types == {Undefined} \cup Primitives \cup Classes

RECURSIVE StaticSchema(_)
\* type.schema: the class's own static or the one it inherits
StaticSchema(t) ==
  IF t = Undefined THEN Undefined
  ELSE IF "schema" \in DOMAIN classes[t] THEN classes[t].schema
  ELSE StaticSchema(classes[t].parent)

RECURSIVE GetMetadata(_)
\* Reflect.getMetadata(SCHEMA_METADATA_KEY, type): the class's own metadata
\* or the one of the nearest ancestor
GetMetadata(t) ==
  IF t = Undefined THEN Undefined
  ELSE IF "meta" \in DOMAIN classes[t] THEN classes[t].meta
  ELSE GetMetadata(classes[t].parent)

\* ------------------------------------------------------------------------
\* Pipe options and constructor arguments
\* ------------------------------------------------------------------------

\* HttpStatus.BAD_REQUEST
BAD_REQUEST == 400

\* HttpStatus.UNPROCESSABLE_ENTITY
UNPROCESSABLE_ENTITY == 422

\* a field of an options record, left out when it is not given
Field(name, given, val) == IF given THEN name :> val ELSE Empty

\* exceptionFactory functions: one returning a plain object, one returning
\* a framework exception
Factories == {"plainFactory", "httpFactory"}

\* the options records with the given choices for each field; Undefined
\* leaves the field out
Options(E, F, V, T) ==
  { Field("errorHttpStatusCode", e, UNPROCESSABLE_ENTITY)
      @@ Field("exceptionFactory", f # Undefined, f)
      @@ Field("validateCustomDecorators", v # Undefined, v = "true")
      @@ Field("expectedType", t # Undefined, t) :
    e \in E, f \in F, v \in V, t \in T }

\* the options records applications pass
OptionsSet ==
  Options(BOOLEAN, {Undefined} \cup Factories, {Undefined, "false", "true"},
          {Undefined, "String", "DecoratedDto"})

\* the options records passed along with a schema
BoundOptionsSet ==
  Options(BOOLEAN, {Undefined} \cup Factories, {Undefined, "true"},
          {Undefined, "DecoratedDto"})

\* the options records passed after a first argument that is no schema object
SecondOptionsSet ==
  Options({TRUE}, {Undefined, "plainFactory"}, {"true"},
          {Undefined, "DecoratedDto"})

\* a constructor argument: nothing, a schema object, a callable schema or an
\* options record
ArgUndefined == [typeof |-> "undefined"]

ArgSchema(s) == [typeof |-> "object", std |-> s]

ArgCallableSchema(s) == [typeof |-> "function", std |-> s]

ArgOptions(o) == [typeof |-> "object", opts |-> o]

\* the option fields read off a value used as the options record
OptionsOf(a) == IF "opts" \in DOMAIN a THEN a.opts ELSE Empty

\* options.name, undefined when the field is not there
Has(o, name) == name \in DOMAIN o

\* ------------------------------------------------------------------------
\* Framework exceptions
\* ------------------------------------------------------------------------

\* new HttpException(response, status)
HttpException(response, status) ==
  [class |-> "HttpException", status |-> status, response |-> response]

\* new BadRequestException(objectPayload)
BadRequestException(payload) ==
  [class |-> "BadRequestException", status |-> BAD_REQUEST, response |-> payload]

\* new UnprocessableEntityException(objectPayload)
UnprocessableEntityException(payload) ==
  [class |-> "UnprocessableEntityException", status |-> UNPROCESSABLE_ENTITY,
   response |-> payload]

\* x instanceof HttpException
InstanceOfHttpException(x) ==
  /\ "class" \in DOMAIN x
  /\ x.class \in {"HttpException", "BadRequestException",
                  "UnprocessableEntityException"}

\* the exceptionFactory functions applications configure
CallFactory(f, issues) ==
  CASE f = "plainFactory" -> [code |-> "X", details |-> issues]
    [] f = "httpFactory"  ->
         UnprocessableEntityException(
           [code |-> "VALIDATION_ERROR",
            errors |-> [i \in DOMAIN issues |-> [message |-> issues[i].message]]])

\* ------------------------------------------------------------------------
\* StandardValidationPipe
\* ------------------------------------------------------------------------

\* isSchema(value), line 143-150
isSchema(value) ==
  /\ value.typeof = "object"
  /\ "std" \in DOMAIN value

\* constructor(schemaOrOptions, options), line 33-46
Constructor(schemaOrOptions, options) ==
  IF isSchema(schemaOrOptions)
    THEN [schema |-> schemaOrOptions.std, options |-> OptionsOf(options)]
  ELSE [schema |-> Undefined, options |-> OptionsOf(schemaOrOptions)]

\* isPrimitive(type), line 132-141
isPrimitive(type) == type \in Primitives

\* getSchemaFromType that reads the decorator metadata only
getSchemaFromType_MetadataOnly(type) == GetMetadata(type)

\* getSchemaFromType that asks the decorator metadata before the static
getSchemaFromType_MetadataFirst(type) ==
  IF GetMetadata(type) # Undefined THEN GetMetadata(type)
  ELSE StaticSchema(type)

\* getSchemaFromType that takes the static only when it has a '~standard'
getSchemaFromType_ChecksStandard(type) ==
  IF StaticSchema(type) # Undefined /\ HasStandard(StaticSchema(type))
    THEN StaticSchema(type)
  ELSE GetMetadata(type)

\* getSchemaFromType(type), line 84-96
getSchemaFromType(type) ==
  IF StaticSchema(type) # Undefined THEN StaticSchema(type)
  ELSE GetMetadata(type)

\* getSchema that resolves a schema for custom arguments whatever the
\* validateCustomDecorators option says
getSchema_ValidatesCustom(p, metadata) ==
  IF p.schema # Undefined THEN p.schema
  ELSE LET expectedType == IF Has(p.options, "expectedType")
                             THEN p.options.expectedType
                           ELSE metadata.metatype
       IN IF expectedType = Undefined \/ isPrimitive(expectedType)
            THEN Undefined
          ELSE getSchemaFromType(expectedType)

\* getSchema that tests the argument kind before the pipe's own schema
getSchema_CustomFirst(p, metadata) ==
  IF /\ metadata.type = "custom"
     /\ ~(/\ Has(p.options, "validateCustomDecorators")
          /\ p.options.validateCustomDecorators)
    THEN Undefined
  ELSE IF p.schema # Undefined THEN p.schema
  ELSE LET expectedType == IF Has(p.options, "expectedType")
                             THEN p.options.expectedType
                           ELSE metadata.metatype
       IN IF expectedType = Undefined \/ isPrimitive(expectedType)
            THEN Undefined
          ELSE getSchemaFromType(expectedType)

\* getSchema that prefers the argument's metatype to options.expectedType
getSchema_MetatypeFirst(p, metadata) ==
  IF p.schema # Undefined THEN p.schema
  ELSE IF /\ metadata.type = "custom"
          /\ ~(/\ Has(p.options, "validateCustomDecorators")
               /\ p.options.validateCustomDecorators)
    THEN Undefined
  ELSE LET expectedType == IF metadata.metatype # Undefined
                             THEN metadata.metatype
                           ELSE IF Has(p.options, "expectedType")
                             THEN p.options.expectedType
                           ELSE Undefined
       IN IF expectedType = Undefined \/ isPrimitive(expectedType)
            THEN Undefined
          ELSE getSchemaFromType(expectedType)

\* getSchema that turns to the argument's metatype when expectedType is a
\* primitive wrapper
getSchema_FallsBackToMetatype(p, metadata) ==
  IF p.schema # Undefined THEN p.schema
  ELSE IF /\ metadata.type = "custom"
          /\ ~(/\ Has(p.options, "validateCustomDecorators")
               /\ p.options.validateCustomDecorators)
    THEN Undefined
  ELSE LET configured == IF Has(p.options, "expectedType")
                           THEN p.options.expectedType
                         ELSE metadata.metatype
           expectedType == IF isPrimitive(configured) THEN metadata.metatype
                           ELSE configured
       IN IF expectedType = Undefined \/ isPrimitive(expectedType)
            THEN Undefined
          ELSE getSchemaFromType(expectedType)

\* getSchema that skips every argument, of whatever kind, unless
\* validateCustomDecorators is set
getSchema_FlagGatesAll(p, metadata) ==
  IF p.schema # Undefined THEN p.schema
  ELSE IF ~(/\ Has(p.options, "validateCustomDecorators")
            /\ p.options.validateCustomDecorators)
    THEN Undefined
  ELSE LET expectedType == IF Has(p.options, "expectedType")
                             THEN p.options.expectedType
                           ELSE metadata.metatype
       IN IF expectedType = Undefined \/ isPrimitive(expectedType)
            THEN Undefined
          ELSE getSchemaFromType(expectedType)

\* getSchema(metadata), line 64-82
getSchema(p, metadata) ==
  IF p.schema # Undefined THEN p.schema
  ELSE IF /\ metadata.type = "custom"
          /\ ~(/\ Has(p.options, "validateCustomDecorators")
               /\ p.options.validateCustomDecorators)
    THEN Undefined
  ELSE LET expectedType == IF Has(p.options, "expectedType")
                             THEN p.options.expectedType
                           ELSE metadata.metatype
       IN IF expectedType = Undefined \/ isPrimitive(expectedType)
            THEN Undefined
          ELSE getSchemaFromType(expectedType)

\* normalizePath with the test on `key` inverted: a compound segment yields
\* no key
normalizePath_IgnoresKey(issue) ==
  IF "path" \notin DOMAIN issue THEN <<>>
  ELSE [i \in DOMAIN issue.path |->
          IF "key" \in DOMAIN issue.path[i] THEN Undefined
          ELSE issue.path[i].raw]

\* normalizePath(path), line 125-130, applied to the path of an issue
normalizePath(issue) ==
  IF "path" \notin DOMAIN issue THEN <<>>
  ELSE [i \in DOMAIN issue.path |->
          IF "key" \in DOMAIN issue.path[i] THEN issue.path[i].key
          ELSE issue.path[i].raw]

\* createException that hands the factory the first issue only
createException_FirstIssueOnly(p, issues) ==
  IF Has(p.options, "exceptionFactory")
    THEN LET exception == CallFactory(p.options.exceptionFactory,
                                      SubSeq(issues, 1, 1)) IN
         [exception |-> IF InstanceOfHttpException(exception) THEN exception
                        ELSE BadRequestException(exception),
          factoryCalls |-> <<SubSeq(issues, 1, 1)>>]
  ELSE LET statusCode == IF Has(p.options, "errorHttpStatusCode")
                           THEN p.options.errorHttpStatusCode
                         ELSE BAD_REQUEST
       IN [exception |->
             HttpException(
               [statusCode |-> statusCode,
                message |-> "Validation failed",
                errors |-> [i \in DOMAIN issues |->
                              [path |-> normalizePath(issues[i]),
                               message |-> issues[i].message]]],
               statusCode),
           factoryCalls |-> <<>>]

\* createException that always surfaces the default status, whatever status
\* the body names
createException_FixedStatus(p, issues) ==
  IF Has(p.options, "exceptionFactory")
    THEN LET exception == CallFactory(p.options.exceptionFactory, issues) IN
         [exception |-> IF InstanceOfHttpException(exception) THEN exception
                        ELSE BadRequestException(exception),
          factoryCalls |-> <<issues>>]
  ELSE LET statusCode == IF Has(p.options, "errorHttpStatusCode")
                           THEN p.options.errorHttpStatusCode
                         ELSE BAD_REQUEST
       IN [exception |->
             HttpException(
               [statusCode |-> statusCode,
                message |-> "Validation failed",
                errors |-> [i \in DOMAIN issues |->
                              [path |-> normalizePath(issues[i]),
                               message |-> issues[i].message]]],
               BAD_REQUEST),
           factoryCalls |-> <<>>]

\* createException that throws what the factory returned, wrapped or not
createException_ThrowsRaw(p, issues) ==
  IF Has(p.options, "exceptionFactory")
    THEN [exception |-> CallFactory(p.options.exceptionFactory, issues),
          factoryCalls |-> <<issues>>]
  ELSE LET statusCode == IF Has(p.options, "errorHttpStatusCode")
                           THEN p.options.errorHttpStatusCode
                         ELSE BAD_REQUEST
       IN [exception |->
             HttpException(
               [statusCode |-> statusCode,
                message |-> "Validation failed",
                errors |-> [i \in DOMAIN issues |->
                              [path |-> normalizePath(issues[i]),
                               message |-> issues[i].message]]],
               statusCode),
           factoryCalls |-> <<>>]

\* createException that wraps what the factory returned in an exception of
\* the configured status
createException_WrapsWithStatus(p, issues) ==
  LET statusCode == IF Has(p.options, "errorHttpStatusCode")
                      THEN p.options.errorHttpStatusCode
                    ELSE BAD_REQUEST
  IN IF Has(p.options, "exceptionFactory")
       THEN LET exception == CallFactory(p.options.exceptionFactory, issues) IN
            [exception |-> IF InstanceOfHttpException(exception) THEN exception
                           ELSE HttpException(exception, statusCode),
             factoryCalls |-> <<issues>>]
     ELSE [exception |->
             HttpException(
               [statusCode |-> statusCode,
                message |-> "Validation failed",
                errors |-> [i \in DOMAIN issues |->
                              [path |-> normalizePath(issues[i]),
                               message |-> issues[i].message]]],
               statusCode),
           factoryCalls |-> <<>>]

\* createException(issues), line 98-123: the exception to throw and the
\* arguments of the calls of exceptionFactory it made
createException(p, issues) ==
  IF Has(p.options, "exceptionFactory")
    THEN LET exception == CallFactory(p.options.exceptionFactory, issues) IN
         [exception |-> IF InstanceOfHttpException(exception) THEN exception
                        ELSE BadRequestException(exception),
          factoryCalls |-> <<issues>>]
  ELSE LET statusCode == IF Has(p.options, "errorHttpStatusCode")
                           THEN p.options.errorHttpStatusCode
                         ELSE BAD_REQUEST
       IN [exception |->
             HttpException(
               [statusCode |-> statusCode,
                message |-> "Validation failed",
                errors |-> [i \in DOMAIN issues |->
                              [path |-> normalizePath(issues[i]),
                               message |-> issues[i].message]]],
               statusCode),
           factoryCalls |-> <<>>]

\* a test that lets an outcome with a value pass even when it lists issues
HasIssues_UnlessValue(result) ==
  /\ "issues" \in DOMAIN result
  /\ "list" \in DOMAIN result.issues
  /\ "value" \notin DOMAIN result

\* 'issues' in result && result.issues, line 57: an issues field holding a
\* list, empty or not; undefined and null are not one
HasIssues(result) == "issues" \in DOMAIN result /\ "list" \in DOMAIN result.issues

\* ------------------------------------------------------------------------
\* transform(value, metadata), line 48-62
\* ------------------------------------------------------------------------

\* ArgumentMetadata.type
Kinds == {"body", "query", "param", "custom"}

\* the argument descriptors the framework passes
Metadata == [type : Kinds, metatype : Types]

Slots == 1..MaxCalls

\* a call slot with no call in it
Idle == [pc |-> "idle"]

\* the call of validate without the await: the promise itself is taken for
\* the outcome, and it has no issues and no value
callValidate_NoAwait(value, metadata, schema) ==
  LET frame == [value |-> value, metadata |-> metadata, schema |-> schema,
                factoryCalls |-> <<>>]
      called == [validateCalls |-> <<[schema |-> schema, value |-> value]>>]
  IN IF ~HasStandard(schema)
       THEN frame @@ [pc |-> "thrown", validateCalls |-> <<>>,
                      error |-> TypeError]
     ELSE IF Delivery(schema) = "throws"
       THEN frame @@ called @@ [pc |-> "thrown", error |-> ValidatorError]
     ELSE IF Delivery(schema) = "sync"
       THEN frame @@ called @@ [pc |-> "awaiting",
                                outcome |-> Validate(schema, value)]
     ELSE frame @@ called @@ [pc |-> "awaiting",
                              outcome |-> [value |-> [t |-> "undefined"]]]

\* line 55, schema['~standard'].validate(value) and the await on its result:
\* a TypeError when the schema has no '~standard', the error validate
\* throws, else the call suspends on a promise that is already fulfilled
\* with the outcome validate returned, or on the promise validate returned
callValidate(value, metadata, schema) ==
  LET frame == [value |-> value, metadata |-> metadata, schema |-> schema,
                factoryCalls |-> <<>>]
      called == [validateCalls |-> <<[schema |-> schema, value |-> value]>>]
  IN IF ~HasStandard(schema)
       THEN frame @@ [pc |-> "thrown", validateCalls |-> <<>>,
                      error |-> TypeError]
     ELSE IF Delivery(schema) = "throws"
       THEN frame @@ called @@ [pc |-> "thrown", error |-> ValidatorError]
     ELSE IF Delivery(schema) = "sync"
       THEN frame @@ called @@ [pc |-> "awaiting",
                                outcome |-> Validate(schema, value)]
     ELSE frame @@ called @@ [pc |-> "awaiting", pending |-> TRUE]

\* the promise validate returned settles: it resolves to the outcome, or
\* rejects
Settled(call) ==
  LET frame == [k \in DOMAIN call \ {"pending"} |-> call[k]] IN
  IF Delivery(call.schema) = "rejects"
    THEN frame @@ [rejection |-> ValidatorError]
  ELSE frame @@ [outcome |-> Validate(call.schema, call.value)]

\* transform that treats a missing schema as an error
transformCall_ThrowsWithoutSchema(p, value, metadata) ==
  LET schema == getSchema(p, metadata) IN
  IF schema = Undefined
    THEN [pc |-> "thrown", value |-> value, metadata |-> metadata,
          schema |-> schema, validateCalls |-> <<>>,
          factoryCalls |-> <<>>, error |-> [message |-> "No schema found"]]
  ELSE callValidate(value, metadata, schema)

\* line 49-55: resolve the schema; return the input when there is none, else
\* call validate and suspend on the await
transformCall(p, value, metadata) ==
  LET schema == getSchema(p, metadata) IN
  IF schema = Undefined
    THEN [pc |-> "returned", value |-> value, metadata |-> metadata,
          schema |-> schema, validateCalls |-> <<>>,
          factoryCalls |-> <<>>, result |-> value]
  ELSE callValidate(value, metadata, schema)

\* transform returning the value it was given instead of the outcome's
transformAwaited_ReturnsInput(p, call) ==
  LET result == call.outcome
      frame == [value |-> call.value, metadata |-> call.metadata,
                schema |-> call.schema,
                validateCalls |-> call.validateCalls]
  IN IF "rejection" \in DOMAIN call
       THEN frame @@ [pc |-> "thrown", error |-> call.rejection,
                      factoryCalls |-> <<>>]
     ELSE IF HasIssues(result)
       THEN LET thrown == createException(p, result.issues.list) IN
            frame @@ [pc |-> "thrown", error |-> thrown.exception,
                      factoryCalls |-> thrown.factoryCalls]
     ELSE frame @@ [pc |-> "returned", result |-> call.value,
                    factoryCalls |-> <<>>]

\* transform that resolves with the input when the outcome carries issues
transformAwaited_SwallowsIssues(p, call) ==
  LET result == call.outcome
      frame == [value |-> call.value, metadata |-> call.metadata,
                schema |-> call.schema,
                validateCalls |-> call.validateCalls]
  IN IF "rejection" \in DOMAIN call
       THEN frame @@ [pc |-> "thrown", error |-> call.rejection,
                      factoryCalls |-> <<>>]
     ELSE IF HasIssues(result)
       THEN frame @@ [pc |-> "returned", result |-> call.value,
                      factoryCalls |-> <<>>]
     ELSE frame @@ [pc |-> "returned", result |-> result.value,
                    factoryCalls |-> <<>>]

\* transform that reports a rejected validation as a validation error
transformAwaited_WrapsRejection(p, call) ==
  LET result == call.outcome
      frame == [value |-> call.value, metadata |-> call.metadata,
                schema |-> call.schema,
                validateCalls |-> call.validateCalls]
  IN IF "rejection" \in DOMAIN call
       THEN LET thrown == createException(p, <<[message |-> call.rejection.message]>>)
            IN frame @@ [pc |-> "thrown", error |-> thrown.exception,
                         factoryCalls |-> thrown.factoryCalls]
     ELSE IF HasIssues(result)
       THEN LET thrown == createException(p, result.issues.list) IN
            frame @@ [pc |-> "thrown", error |-> thrown.exception,
                      factoryCalls |-> thrown.factoryCalls]
     ELSE frame @@ [pc |-> "returned", result |-> result.value,
                    factoryCalls |-> <<>>]

\* line 55-61: the await resumes with the outcome; throw when it carries
\* issues, else return its value
transformAwaited(p, call) ==
  LET result == call.outcome
      frame == [value |-> call.value, metadata |-> call.metadata,
                schema |-> call.schema,
                validateCalls |-> call.validateCalls]
  IN IF "rejection" \in DOMAIN call
       THEN frame @@ [pc |-> "thrown", error |-> call.rejection,
                      factoryCalls |-> <<>>]
     ELSE IF HasIssues(result)
       THEN LET thrown == createException(p, result.issues.list) IN
            frame @@ [pc |-> "thrown", error |-> thrown.exception,
                      factoryCalls |-> thrown.factoryCalls]
     ELSE frame @@ [pc |-> "returned", result |-> result.value,
                    factoryCalls |-> <<>>]

\* a call of transform that keeps the schema it resolved as the pipe's own
transform_CachesSchema(c, value, metadata) ==
  /\ calls[c].pc = "idle"
  /\ calls' = [calls EXCEPT ![c] = transformCall(pipe, value, metadata)]
  /\ pipe' = [pipe EXCEPT !.schema = getSchema(pipe, metadata)]
  /\ UNCHANGED <<args, classes, resp>>

\* a call of transform that does not call validate again for a value an
\* earlier call, still at hand, has had validated with the same schema
transform_Cached(c, value, metadata) ==
  /\ calls[c].pc = "idle"
  /\ LET fresh == transformCall(pipe, value, metadata)
         hits == {d \in Slots : /\ calls[d].pc \in {"returned", "thrown"}
                                /\ calls[d].value = value
                                /\ calls[d].schema = fresh.schema}
     IN calls' = [calls EXCEPT ![c] =
                    IF hits # {} /\ fresh.pc = "awaiting"
                      THEN [fresh EXCEPT !.validateCalls = <<>>]
                    ELSE fresh]
  /\ UNCHANGED <<args, pipe, classes, resp>>

\* a call of transform, up to its return or its await
transform(c, value, metadata) ==
  /\ calls[c].pc = "idle"
  /\ calls' = [calls EXCEPT ![c] = transformCall(pipe, value, metadata)]
  /\ UNCHANGED <<args, pipe, classes, resp>>

\* a continuation that takes the outcome from where the latest validate
\* call left it, as if the pipe kept it in a field of its own
transformResume_SharedOutcome(c) ==
  /\ calls[c].pc = "awaiting"
  /\ "pending" \notin DOMAIN calls[c]
  /\ LET last == CHOOSE d \in Slots :
                   /\ calls[d].pc = "awaiting"
                   /\ \A e \in Slots : calls[e].pc = "awaiting" => e <= d
     IN calls' = [calls EXCEPT ![c] =
                    transformAwaited(pipe, [calls[c] EXCEPT
                                              !.outcome = calls[last].outcome])]
  /\ UNCHANGED <<args, pipe, classes, resp>>

\* the promise the call in slot c awaits settles, unless it is one that
\* never does
settle(c) ==
  /\ calls[c].pc = "awaiting"
  /\ "pending" \in DOMAIN calls[c]
  /\ Delivery(calls[c].schema) # "never"
  /\ calls' = [calls EXCEPT ![c] = Settled(calls[c])]
  /\ UNCHANGED <<args, pipe, classes, resp>>

\* a continuation that gives up on a promise that has not settled
transformResume_TimesOut(c) ==
  /\ calls[c].pc = "awaiting"
  /\ calls' = [calls EXCEPT ![c] =
                 IF "pending" \in DOMAIN calls[c]
                   THEN [pc |-> "thrown", error |-> [name |-> "TimeoutError"]]
                          @@ [k \in DOMAIN calls[c] \ {"pending"} |->
                                calls[c][k]]
                 ELSE transformAwaited(pipe, calls[c])]
  /\ UNCHANGED <<args, pipe, classes, resp>>

\* the continuation of transform after its await
transformResume(c) ==
  /\ calls[c].pc = "awaiting"
  /\ "pending" \notin DOMAIN calls[c]
  /\ calls' = [calls EXCEPT ![c] = transformAwaited(pipe, calls[c])]
  /\ UNCHANGED <<args, pipe, classes, resp>>

\* the framework invokes the route handler with the value the promise of
\* transform resolved with
Handler(c) ==
  /\ calls[c].pc = "returned"
  /\ "handlerArg" \notin DOMAIN calls[c]
  /\ calls' = [calls EXCEPT ![c] = calls[c] @@ [handlerArg |-> calls[c].result]]
  /\ UNCHANGED <<args, pipe, classes, resp>>

\* the framework turns the exception the promise of transform rejected with
\* into the response: status and body of an HttpException, 500 otherwise
ErrorResponse(c) ==
  /\ calls[c].pc = "thrown"
  /\ "response" \notin DOMAIN calls[c]
  /\ calls' = [calls EXCEPT ![c] =
                 calls[c] @@
                 [response |->
                    IF InstanceOfHttpException(calls[c].error)
                      THEN [status |-> calls[c].error.status,
                            body |-> calls[c].error.response]
                    ELSE [status |-> 500,
                          body |-> [statusCode |-> 500,
                                    message |-> "Internal server error"]]]]
  /\ UNCHANGED <<args, pipe, classes, resp>>

\* the caller has consumed the result of the call
Release(c) ==
  /\ calls[c].pc \in {"returned", "thrown"}
  /\ calls' = [calls EXCEPT ![c] = Idle]
  /\ UNCHANGED <<args, pipe, classes, resp>>

\* ------------------------------------------------------------------------
\* Response serializer
\* ------------------------------------------------------------------------

\* the collections of at most n values
SeqsUpTo(S, n) == UNION {[1..k -> S] : k \in 0..n}

\* the DTO classes handlers declare with @ResponseSchema
ResponseDtos == {"UserZodDto", "SubUserZodDto"}

\* response-shape metadata of a handler: none, a DTO or an array-wrapped DTO
Shapes ==
  {[kind |-> "none"]}
    \cup {[kind |-> "scalar", dto |-> d] : d \in ResponseDtos}
    \cup {[kind |-> "array", dto |-> d] : d \in ResponseDtos}

\* what a handler with the given response shape returns
Returns(shape) ==
  IF shape.kind = "array" THEN SeqsUpTo(Values, MaxElems) ELSE Values

\* no handler has returned
NoResponse == [pc |-> "idle"]

RECURSIVE FirstFailure(_, _)
\* the index of the first element from the i-th on that the schema rejects,
\* 0 when there is none
FirstFailure(outcomes, i) ==
  IF i > Len(outcomes) THEN 0
  ELSE IF HasIssues(outcomes[i]) THEN i
  ELSE FirstFailure(outcomes, i + 1)

\* a serializer that sends what the handler returned when the shape is a
\* single DTO
serialize_Unfiltered(shape, ret) ==
  IF shape.kind = "none"
    THEN [pc |-> "sent", response |-> ret, validateCalls |-> <<>>]
  ELSE LET schema == StaticSchema(shape.dto) IN
       IF shape.kind = "scalar"
         THEN LET outcome == Validate(schema, ret) IN
              [validateCalls |-> <<[schema |-> schema, value |-> ret]>>] @@
              IF HasIssues(outcome)
                THEN [pc |-> "failed", issues |-> outcome.issues.list]
              ELSE [pc |-> "sent", response |-> ret]
       ELSE LET outcomes == [i \in DOMAIN ret |-> Validate(schema, ret[i])]
                bad == FirstFailure(outcomes, 1)
            IN [validateCalls |->
                  [i \in DOMAIN ret |-> [schema |-> schema, value |-> ret[i]]]]
               @@
               IF bad # 0
                 THEN [pc |-> "failed", issues |-> outcomes[bad].issues.list]
               ELSE [pc |-> "sent",
                     response |-> [i \in DOMAIN ret |-> outcomes[i].value]]

\* a serializer that sends the elements of a collection last to first
serialize_Reversed(shape, ret) ==
  IF shape.kind = "none"
    THEN [pc |-> "sent", response |-> ret, validateCalls |-> <<>>]
  ELSE LET schema == StaticSchema(shape.dto) IN
       IF shape.kind = "scalar"
         THEN LET outcome == Validate(schema, ret) IN
              [validateCalls |-> <<[schema |-> schema, value |-> ret]>>] @@
              IF HasIssues(outcome)
                THEN [pc |-> "failed", issues |-> outcome.issues.list]
              ELSE [pc |-> "sent", response |-> outcome.value]
       ELSE LET outcomes == [i \in DOMAIN ret |-> Validate(schema, ret[i])]
                bad == FirstFailure(outcomes, 1)
            IN [validateCalls |->
                  [i \in DOMAIN ret |-> [schema |-> schema, value |-> ret[i]]]]
               @@
               IF bad # 0
                 THEN [pc |-> "failed", issues |-> outcomes[bad].issues.list]
               ELSE [pc |-> "sent",
                     response |-> [i \in DOMAIN ret |->
                                     outcomes[Len(ret) + 1 - i].value]]

\* a serializer that, when the schema rejects, sends what it could filter:
\* the accepted elements of a collection, the returned value itself otherwise
serialize_BestEffort(shape, ret) ==
  IF shape.kind = "none"
    THEN [pc |-> "sent", response |-> ret, validateCalls |-> <<>>]
  ELSE LET schema == StaticSchema(shape.dto) IN
       IF shape.kind = "scalar"
         THEN LET outcome == Validate(schema, ret) IN
              [validateCalls |-> <<[schema |-> schema, value |-> ret]>>] @@
              IF HasIssues(outcome)
                THEN [pc |-> "sent", response |-> ret]
              ELSE [pc |-> "sent", response |-> outcome.value]
       ELSE LET outcomes == [i \in DOMAIN ret |-> Validate(schema, ret[i])]
            IN [validateCalls |->
                  [i \in DOMAIN ret |-> [schema |-> schema, value |-> ret[i]]]]
               @@
               [pc |-> "sent",
                response |-> [i \in DOMAIN ret |->
                                IF HasIssues(outcomes[i]) THEN Obj(Empty)
                                ELSE outcomes[i].value]]

\* a serializer that takes a handler without response-shape metadata for one
\* declaring the first response DTO
serialize_NoFallThrough(shape, ret) ==
  LET schema == IF shape.kind = "none" THEN StaticSchema("UserZodDto")
                ELSE StaticSchema(shape.dto) IN
  IF shape.kind # "array"
    THEN LET outcome == Validate(schema, ret) IN
         [validateCalls |-> <<[schema |-> schema, value |-> ret]>>] @@
         IF HasIssues(outcome)
           THEN [pc |-> "failed", issues |-> outcome.issues.list]
         ELSE [pc |-> "sent", response |-> outcome.value]
  ELSE LET outcomes == [i \in DOMAIN ret |-> Validate(schema, ret[i])]
           bad == FirstFailure(outcomes, 1)
       IN [validateCalls |->
             [i \in DOMAIN ret |-> [schema |-> schema, value |-> ret[i]]]]
          @@
          IF bad # 0
            THEN [pc |-> "failed", issues |-> outcomes[bad].issues.list]
          ELSE [pc |-> "sent",
                response |-> [i \in DOMAIN ret |-> outcomes[i].value]]

\* the serializer's result for a handler's return value: the value to send,
\* or the failure outcome of the schema
serialize(shape, ret) ==
  IF shape.kind = "none"
    THEN [pc |-> "sent", response |-> ret, validateCalls |-> <<>>]
  ELSE LET schema == StaticSchema(shape.dto) IN
       IF shape.kind = "scalar"
         THEN LET outcome == Validate(schema, ret) IN
              [validateCalls |-> <<[schema |-> schema, value |-> ret]>>] @@
              IF HasIssues(outcome)
                THEN [pc |-> "failed", issues |-> outcome.issues.list]
              ELSE [pc |-> "sent", response |-> outcome.value]
       ELSE LET outcomes == [i \in DOMAIN ret |-> Validate(schema, ret[i])]
                bad == FirstFailure(outcomes, 1)
            IN [validateCalls |->
                  [i \in DOMAIN ret |-> [schema |-> schema, value |-> ret[i]]]]
               @@
               IF bad # 0
                 THEN [pc |-> "failed", issues |-> outcomes[bad].issues.list]
               ELSE [pc |-> "sent",
                     response |-> [i \in DOMAIN ret |-> outcomes[i].value]]

\* a handler returns a value
HandlerReturn(shape, ret) ==
  /\ resp.pc = "idle"
  /\ resp' = [pc |-> "returned", shape |-> shape, ret |-> ret]
  /\ UNCHANGED <<args, pipe, classes, calls>>

\* the serializer intercepts the returned value
intercept ==
  /\ resp.pc = "returned"
  /\ resp' = [shape |-> resp.shape, ret |-> resp.ret]
               @@ serialize(resp.shape, resp.ret)
  /\ UNCHANGED <<args, pipe, classes, calls>>

\* the response has left; the next request can come
Respond ==
  /\ resp.pc \in {"sent", "failed"}
  /\ resp' = NoResponse
  /\ UNCHANGED <<args, pipe, classes, calls>>

\* ------------------------------------------------------------------------
\* Specifications
\* ------------------------------------------------------------------------

\* the ways applications construct the pipe
CtorArgs ==
  {<<ArgUndefined, ArgUndefined>>}
    \cup {<<ArgOptions(o), ArgUndefined>> : o \in OptionsSet}
    \cup {<<ArgUndefined, ArgOptions(o)>> : o \in SecondOptionsSet}
    \cup {<<ArgSchema(s), ArgUndefined>> : s \in Schemas}
    \cup {<<ArgSchema("UserZodSchema"), ArgOptions(o)>> : o \in BoundOptionsSet}
    \cup {<<ArgCallableSchema("UserValibotSchema"), ArgOptions(o)>> :
            o \in SecondOptionsSet}

\* the state after new StandardValidationPipe(args[1], args[2])
Init ==
  /\ args \in CtorArgs
  /\ pipe = Constructor(args[1], args[2])
  /\ classes = [t \in Classes |-> ClassDef(t)]
  /\ calls = [c \in Slots |-> Idle]
  /\ resp = NoResponse

\* the lowest free call slot takes the next call
LowestIdle(c) ==
  /\ calls[c].pc = "idle"
  /\ \A d \in Slots : d < c => calls[d].pc # "idle"

\* one call at a time
Sequential == \A d \in Slots : calls[d].pc = "idle"

Next ==
  \/ \E c \in Slots, value \in Values, metadata \in Metadata :
       LowestIdle(c) /\ Sequential /\ transform(c, value, metadata)
  \/ \E c \in Slots : transformResume(c)
  \/ \E c \in Slots : Handler(c)
  \/ \E c \in Slots : ErrorResponse(c)
  \/ \E c \in Slots : Release(c)

Spec == Init /\ [][Next]_vars

\* the application of the serializer tests: a global pipe constructed with
\* no argument
InitSer ==
  /\ args = <<ArgUndefined, ArgUndefined>>
  /\ pipe = Constructor(args[1], args[2])
  /\ classes = [t \in Classes |-> ClassDef(t)]
  /\ calls = [c \in Slots |-> Idle]
  /\ resp = NoResponse

NextSer ==
  \/ \E shape \in Shapes : \E ret \in Returns(shape) : HandlerReturn(shape, ret)
  \/ intercept
  \/ Respond

SpecSer == InitSer /\ [][NextSer]_vars

\* the pipes of the concurrent application: the global type-driven pipe, the
\* same with an exceptionFactory and a status, and a schema-bound pipe
ConcCtorArgs ==
  { <<ArgUndefined, ArgUndefined>>,
    <<ArgOptions([errorHttpStatusCode |-> UNPROCESSABLE_ENTITY]), ArgUndefined>>,
    <<ArgSchema("UserValibotSchema"),
      ArgOptions([exceptionFactory |-> "plainFactory"])>> }

\* the bodies of concurrent requests: a valid one, one with a field to strip
\* and an invalid one
ConcValues ==
  { Obj(("name" :> "John") @@ ("email" :> "john@example.com")),
    Obj(("name" :> "Jane") @@ ("email" :> "jane@example.com")
          @@ ("password" :> "secret2")),
    Obj(("name" :> "John") @@ ("email" :> "invalid-email")) }

\* the arguments of concurrent requests: bodies of two DTOs with different
\* schemas and a custom argument
ConcMetadata ==
  { [type |-> "body", metatype |-> "UserZodDto"],
    [type |-> "body", metatype |-> "DecoratedDto"],
    [type |-> "custom", metatype |-> "UserZodDto"] }

\* one pipe instance shared by all requests
InitConc ==
  /\ args \in ConcCtorArgs
  /\ pipe = Constructor(args[1], args[2])
  /\ classes = [t \in Classes |-> ClassDef(t)]
  /\ calls = [c \in Slots |-> Idle]
  /\ resp = NoResponse

\* requests arrive while earlier calls are suspended; suspended calls resume
\* in any order
NextConc ==
  \/ \E c \in Slots, value \in ConcValues, metadata \in ConcMetadata :
       LowestIdle(c) /\ transform(c, value, metadata)
  \/ \E c \in Slots : transformResume(c)
  \/ \E c \in Slots : Release(c)

SpecConc == InitConc /\ [][NextConc]_vars

\* the classes of the application with stub validators: a DTO of an
\* asynchronous schema, a class whose static `schema` is no schema, and one
\* that carries a schema as decorator metadata besides
StubClassDef(t) ==
  CASE t = "StubDto"       -> createStandardDto(StubSchema("async", "issues"))
    [] t = "BrokenDto"     -> [schema |-> NotASchema, parent |-> Undefined]
    [] t = "BrokenBothDto" ->
         SchemaDecorator(StubSchema("sync", "success"),
                         [schema |-> NotASchema, parent |-> Undefined])

StubClasses == {"StubDto", "BrokenDto", "BrokenBothDto"}

\* the error options of the pipes with stub validators
StubOptionsSet ==
  { [errorHttpStatusCode |-> UNPROCESSABLE_ENTITY],
    [errorHttpStatusCode |-> UNPROCESSABLE_ENTITY,
     exceptionFactory |-> "plainFactory"] }

\* a pipe bound to each stub schema, with and without options, and the
\* type-driven pipes
StubCtorArgs ==
  {<<ArgSchema(s), ArgUndefined>> : s \in StubSchemas}
    \cup {<<ArgSchema(s), ArgOptions(o)>> : s \in StubSchemas, o \in StubOptionsSet}
    \cup {<<ArgUndefined, ArgUndefined>>}
    \cup {<<ArgOptions(o), ArgUndefined>> : o \in StubOptionsSet}

\* the values passed to the pipes with stub validators
StubValues ==
  { Obj(("name" :> "John") @@ ("email" :> "john@example.com")), Prim }

\* the arguments passed to the pipes with stub validators
StubMetadata ==
  [type : {"body"}, metatype : {Undefined} \cup StubClasses]

InitStub ==
  /\ args \in StubCtorArgs
  /\ pipe = Constructor(args[1], args[2])
  /\ classes = [t \in StubClasses |-> StubClassDef(t)]
  /\ calls = [c \in Slots |-> Idle]
  /\ resp = NoResponse

NextStub ==
  \/ \E c \in Slots, value \in StubValues, metadata \in StubMetadata :
       LowestIdle(c) /\ Sequential /\ transform(c, value, metadata)
  \/ \E c \in Slots : settle(c)
  \/ \E c \in Slots : transformResume(c)
  \/ \E c \in Slots : Release(c)

SpecStub == InitStub /\ [][NextStub]_vars

\* the promises that settle do so eventually, and a call whose await has
\* its value is eventually resumed
FairStub ==
  /\ SpecStub
  /\ \A c \in Slots : WF_vars(settle(c)) /\ WF_vars(transformResume(c))

\* ------------------------------------------------------------------------
\* Properties
\* ------------------------------------------------------------------------

\* the call in slot c has returned or thrown
Completed(c) == calls[c].pc \in {"returned", "thrown"}

\* the pipe holds a schema of its own
SchemaBound == pipe.schema # Undefined

\* the pipe has an exceptionFactory
FactoryConfigured == Has(pipe.options, "exceptionFactory")

\* the key a path segment stands for
SegmentKey(seg) == IF "raw" \in DOMAIN seg THEN seg.raw ELSE seg.key

\* the flattened path of an issue
FlatPath(issue) ==
  IF "path" \in DOMAIN issue
    THEN [i \in DOMAIN issue.path |-> SegmentKey(issue.path[i])]
  ELSE <<>>

\* C1: a schema-bound pipe whose schema accepts the input returns exactly
\* the value of the schema's success outcome and does not throw
C1_BoundSuccessReturnsOutcomeValue ==
  \A c \in Slots :
    (/\ SchemaBound
     /\ Completed(c)
     /\ ~HasIssues(Validate(pipe.schema, calls[c].value)))
    => /\ calls[c].pc = "returned"
       /\ calls[c].result = Validate(pipe.schema, calls[c].value).value

\* a schema-bound pipe has returned a value that differs from its input
C1_Witness ==
  \E c \in Slots :
    /\ SchemaBound
    /\ calls[c].pc = "returned"
    /\ calls[c].result # calls[c].value
    /\ calls[c].result = Validate(pipe.schema, calls[c].value).value

\* C2: a schema-bound pipe without exceptionFactory throws, for an input the
\* schema reports issues on, an error with one entry per issue, in order,
\* carrying the issue's message and its flattened path
C2_ErrorsMirrorIssues ==
  \A c \in Slots :
    (/\ SchemaBound
     /\ ~FactoryConfigured
     /\ Completed(c)
     /\ HasIssues(Validate(pipe.schema, calls[c].value)))
    => /\ calls[c].pc = "thrown"
       /\ LET issues == Validate(pipe.schema, calls[c].value).issues.list
              errors == calls[c].error.response.errors
          IN /\ Len(errors) = Len(issues)
             /\ \A i \in 1..Len(issues) :
                  /\ errors[i].message = issues[i].message
                  /\ errors[i].path = FlatPath(issues[i])

\* a schema-bound pipe has thrown for two issues whose paths are made of
\* compound segments
C2_Witness ==
  \E c \in Slots :
    /\ SchemaBound
    /\ ~FactoryConfigured
    /\ calls[c].pc = "thrown"
    /\ Len(calls[c].error.response.errors) = 2
    /\ calls[c].error.response.errors[2].path = <<"password">>
    /\ "key" \in DOMAIN
         Validate(pipe.schema, calls[c].value).issues.list[2].path[1]

\* C3: with no exceptionFactory, the exception thrown for reported issues
\* has the body {statusCode, message: "Validation failed", errors}, its HTTP
\* status is errorHttpStatusCode when configured and 400 otherwise, and the
\* body's statusCode equals that status
C3_DefaultErrorShape ==
  \A c \in Slots :
    (/\ ~FactoryConfigured
     /\ Completed(c)
     /\ calls[c].schema # Undefined
     /\ HasIssues(Validate(calls[c].schema, calls[c].value)))
    => /\ calls[c].pc = "thrown"
       /\ LET e == calls[c].error IN
          /\ DOMAIN e.response = {"statusCode", "message", "errors"}
          /\ e.response.message = "Validation failed"
          /\ e.status = IF Has(pipe.options, "errorHttpStatusCode")
                          THEN pipe.options.errorHttpStatusCode
                        ELSE 400
          /\ e.response.statusCode = e.status

\* a pipe configured with errorHttpStatusCode 422 and no exceptionFactory
\* has thrown
C3_Witness ==
  \E c \in Slots :
    /\ ~FactoryConfigured
    /\ Has(pipe.options, "errorHttpStatusCode")
    /\ calls[c].pc = "thrown"
    /\ calls[c].error.status = 422
    /\ calls[c].error.response.statusCode = 422

\* the type the schema is looked up on: expectedType when configured, else
\* the argument's metatype
EffectiveType(md) ==
  IF Has(pipe.options, "expectedType") THEN pipe.options.expectedType
  ELSE md.metatype

\* a type that no schema can be resolved from
Unresolvable(t) ==
  \/ t = Undefined
  \/ t \in {"String", "Boolean", "Number", "Array", "Object"}
  \/ /\ t \in Classes
     /\ StaticSchema(t) = Undefined
     /\ GetMetadata(t) = Undefined

\* the call in slot c returned its input and validated nothing
PassedThrough(c) ==
  /\ calls[c].pc = "returned"
  /\ calls[c].result = calls[c].value
  /\ calls[c].validateCalls = <<>>

\* C4: a type-driven pipe that can resolve no schema for a call (type
\* absent, a primitive wrapper, or a class with neither a static schema nor
\* schema metadata) returns the input itself, never throws and never calls
\* validate
C4_UnresolvablePassesThrough ==
  \A c \in Slots :
    (/\ ~SchemaBound
     /\ calls[c].pc # "idle"
     /\ Unresolvable(EffectiveType(calls[c].metadata)))
    => PassedThrough(c)

\* a type-driven pipe has passed through a value no schema of the
\* application accepts, for a class that carries no schema
C4_Witness ==
  \E c \in Slots :
    /\ ~SchemaBound
    /\ PassedThrough(c)
    /\ calls[c].metadata.type = "body"
    /\ EffectiveType(calls[c].metadata) = "PlainClass"
    /\ calls[c].value = Prim

\* validateCustomDecorators is set to true
CustomEnabled ==
  /\ Has(pipe.options, "validateCustomDecorators")
  /\ pipe.options.validateCustomDecorators

\* C5: a type-driven pipe returns a custom argument unchanged, without
\* validating, when validateCustomDecorators is unset or false, whatever
\* schema the metatype or expectedType carries; when it is true, a schema
\* attached to the type validates the argument
C5_CustomNeedsFlag ==
  \A c \in Slots :
    (/\ ~SchemaBound
     /\ calls[c].pc # "idle"
     /\ calls[c].metadata.type = "custom")
    => LET t == EffectiveType(calls[c].metadata) IN
       /\ ~CustomEnabled => PassedThrough(c)
       /\ (/\ CustomEnabled
           /\ t \in Classes
           /\ {StaticSchema(t), GetMetadata(t)} # {Undefined})
          => /\ Len(calls[c].validateCalls) = 1
             /\ calls[c].validateCalls[1].value = calls[c].value
             /\ calls[c].validateCalls[1].schema
                  \in {StaticSchema(t), GetMetadata(t)} \ {Undefined}

\* a pipe with validateCustomDecorators false has passed through a custom
\* argument that the schema of its DTO metatype rejects
C5_Witness ==
  \E c \in Slots :
    /\ ~SchemaBound
    /\ Has(pipe.options, "validateCustomDecorators")
    /\ ~pipe.options.validateCustomDecorators
    /\ ~Has(pipe.options, "expectedType")
    /\ PassedThrough(c)
    /\ calls[c].metadata = [type |-> "custom", metatype |-> "UserZodDto"]
    /\ HasIssues(Validate("UserZodSchema", calls[c].value))

\* what a completed call produced
Outcome(call) ==
  IF call.pc = "returned" THEN [returned |-> call.result]
  ELSE [thrown |-> call.error]

\* the options of the pipe that shape its errors
ErrorOptions(o) ==
  [k \in DOMAIN o \cap {"errorHttpStatusCode", "exceptionFactory"} |-> o[k]]

\* the call of a pipe bound to the same schema, with the same error options
\* and nothing else configured, on the same value as a body argument with
\* no metatype
ReferenceCall(value) ==
  LET p == [schema |-> pipe.schema, options |-> ErrorOptions(pipe.options)]
  IN transformAwaited(p, transformCall(p, value,
                                       [type |-> "body", metatype |-> Undefined]))

\* C6: a schema-bound pipe validates every call with its own schema, and the
\* outcome is the same for every argument descriptor, every
\* validateCustomDecorators, every expectedType and every schema the
\* metatype carries
C6_BoundSchemaAlwaysUsed ==
  \A c \in Slots :
    (SchemaBound /\ calls[c].pc # "idle")
    => /\ calls[c].validateCalls =
            <<[schema |-> pipe.schema, value |-> calls[c].value]>>
       /\ Completed(c) => Outcome(calls[c]) = Outcome(ReferenceCall(calls[c].value))

\* a schema-bound pipe with an expectedType carrying another schema has
\* validated a custom argument whose metatype carries another schema
C6_Witness ==
  \E c \in Slots :
    /\ pipe.schema = "UserZodSchema"
    /\ Has(pipe.options, "expectedType")
    /\ pipe.options.expectedType = "DecoratedDto"
    /\ ~Has(pipe.options, "validateCustomDecorators")
    /\ calls[c].pc = "thrown"
    /\ calls[c].metadata = [type |-> "custom", metatype |-> "DecoratedDto"]
    /\ calls[c].validateCalls[1].schema = "UserZodSchema"

\* the classes that createStandardDto produced, and their subclasses
DtoClasses == {t \in Classes : StaticSchema(t) # Undefined}

\* the call in slot c was validated with schema s: the success value was
\* returned, or the validation error thrown (the default structured error,
\* or the exception of the exceptionFactory when there is one)
ValidatedWith(c, s) ==
  /\ calls[c].validateCalls = <<[schema |-> s, value |-> calls[c].value]>>
  /\ IF HasIssues(Validate(s, calls[c].value))
       THEN /\ calls[c].pc = "thrown"
            /\ InstanceOfHttpException(calls[c].error)
            /\ ~FactoryConfigured =>
                 /\ calls[c].error.response.message = "Validation failed"
                 /\ Len(calls[c].error.response.errors)
                      = Len(Validate(s, calls[c].value).issues.list)
            /\ FactoryConfigured =>
                 calls[c].factoryCalls = <<Validate(s, calls[c].value).issues.list>>
     ELSE /\ calls[c].pc = "returned"
          /\ calls[c].result = Validate(s, calls[c].value).value

\* C7 as stated: a type-driven pipe validates a non-custom argument whose
\* metatype is a createStandardDto class (or a subclass) with that DTO's
\* schema
C7_Original ==
  \A c \in Slots :
    (/\ ~SchemaBound
     /\ Completed(c)
     /\ calls[c].metadata.type # "custom"
     /\ calls[c].metadata.metatype \in DtoClasses)
    => ValidatedWith(c, StaticSchema(calls[c].metadata.metatype))

\* C7 amended: a type-driven pipe with no expectedType configured validates
\* a non-custom argument whose metatype is a createStandardDto class (or a
\* subclass) with that DTO's schema
C7_DtoMetatypeValidated ==
  \A c \in Slots :
    (/\ ~SchemaBound
     /\ ~Has(pipe.options, "expectedType")
     /\ Completed(c)
     /\ calls[c].metadata.type # "custom"
     /\ calls[c].metadata.metatype \in DtoClasses)
    => ValidatedWith(c, StaticSchema(calls[c].metadata.metatype))

\* a type-driven pipe has returned the schema's value, not the input, for
\* a body argument whose metatype is a subclass of a createStandardDto class
C7_Witness ==
  \E c \in Slots :
    /\ ~SchemaBound
    /\ ~Has(pipe.options, "expectedType")
    /\ calls[c].pc = "returned"
    /\ calls[c].metadata = [type |-> "body", metatype |-> "SubUserZodDto"]
    /\ calls[c].result # calls[c].value
    /\ calls[c].validateCalls[1].schema = "UserZodSchema"

\* the serializer has dealt with the value a handler returned
Intercepted == resp.pc \in {"sent", "failed"}

\* the schema of the DTO the handler's response shape names
ResponseSchema == StaticSchema(resp.shape.dto)

\* the fields a schema declares
Declared(s) == {SchemaDef(s).fields[i] : i \in DOMAIN SchemaDef(s).fields}

C9_ArrayResponseElementwise ==
  (/\ Intercepted
   /\ resp.shape.kind = "array"
   /\ \A i \in DOMAIN resp.ret : ~HasIssues(Validate(ResponseSchema, resp.ret[i])))
  => /\ resp.pc = "sent"
     /\ Len(resp.response) = Len(resp.ret)
     /\ \A i \in DOMAIN resp.ret :
          resp.response[i] = Validate(ResponseSchema, resp.ret[i]).value

\* a collection of two different elements was sent, each filtered, in the
\* handler's order
C9_Witness ==
  /\ resp.pc = "sent"
  /\ resp.shape.kind = "array"
  /\ Len(resp.ret) = 2
  /\ resp.response[1] # resp.response[2]
  /\ resp.response[2] # resp.ret[2]
  /\ resp.response[2].f.name = resp.ret[2].f.name

\* C10: with an exceptionFactory, transform calls it with the issue list
\* and throws the object it returned when that is an HttpException, else a
\* 400 BadRequestException whose payload is the returned value; what is
\* thrown is always an HttpException
C10_FactoryResultThrownOrWrapped ==
  \A c \in Slots :
    (/\ FactoryConfigured
     /\ Completed(c)
     /\ calls[c].schema # Undefined
     /\ HasIssues(Validate(calls[c].schema, calls[c].value)))
    => LET issues == Validate(calls[c].schema, calls[c].value).issues.list
           returned == CallFactory(pipe.options.exceptionFactory, issues)
       IN /\ calls[c].pc = "thrown"
          /\ calls[c].factoryCalls = <<issues>>
          /\ InstanceOfHttpException(calls[c].error)
          /\ IF InstanceOfHttpException(returned)
               THEN calls[c].error = returned
             ELSE /\ calls[c].error.status = 400
                  /\ calls[c].error.response = returned
          /\ pipe.options.exceptionFactory = "plainFactory"
               => calls[c].error.response = [code |-> "X", details |-> issues]

\* a pipe whose factory returns a plain object has thrown a 400 exception
\* carrying that object
C10_Witness ==
  \E c \in Slots :
    /\ FactoryConfigured
    /\ calls[c].pc = "thrown"
    /\ pipe.options.exceptionFactory = "plainFactory"
    /\ calls[c].error.status = 400
    /\ calls[c].error.response.code = "X"
    /\ Len(calls[c].error.response.details) = 2

\* the call in slot c has completed and its schema reported issues
Rejected(c) ==
  /\ Completed(c)
  /\ calls[c].schema # Undefined
  /\ HasIssues(Validate(calls[c].schema, calls[c].value))

\* errorHttpStatusCode, 400 when none is configured
ChosenStatus ==
  IF Has(pipe.options, "errorHttpStatusCode")
    THEN pipe.options.errorHttpStatusCode
  ELSE 400

\* the exceptionFactory of the pipe returns a framework exception
FactoryReturnsHttp(issues) ==
  /\ FactoryConfigured
  /\ InstanceOfHttpException(CallFactory(pipe.options.exceptionFactory, issues))

\* C11 as stated: the status of the error thrown for reported issues is
\* errorHttpStatusCode (400 when none), except when exceptionFactory returns
\* a framework exception, whose own status it then is
C11_Original ==
  \A c \in Slots :
    Rejected(c)
    => LET issues == Validate(calls[c].schema, calls[c].value).issues.list IN
       /\ calls[c].pc = "thrown"
       /\ calls[c].error.status =
            IF FactoryReturnsHttp(issues)
              THEN CallFactory(pipe.options.exceptionFactory, issues).status
            ELSE ChosenStatus

\* C11 amended: the status is errorHttpStatusCode (400 when none) when no
\* exceptionFactory is configured; with an exceptionFactory it is the own
\* status of the framework exception the factory returned, and 400 when the
\* factory returned anything else
C11_StatusOfThrownError ==
  \A c \in Slots :
    Rejected(c)
    => LET issues == Validate(calls[c].schema, calls[c].value).issues.list IN
       /\ calls[c].pc = "thrown"
       /\ calls[c].error.status =
            IF ~FactoryConfigured THEN ChosenStatus
            ELSE IF FactoryReturnsHttp(issues)
              THEN CallFactory(pipe.options.exceptionFactory, issues).status
            ELSE 400

\* a pipe with errorHttpStatusCode 422 and a factory returning a plain
\* object has thrown an error of status 400
C11_Witness ==
  \E c \in Slots :
    /\ calls[c].pc = "thrown"
    /\ Has(pipe.options, "errorHttpStatusCode")
    /\ pipe.options.errorHttpStatusCode = 422
    /\ FactoryConfigured
    /\ pipe.options.exceptionFactory = "plainFactory"
    /\ calls[c].error.status = 400

\* C12 as stated: whatever exposes a '~standard' namespace, a plain object
\* or a callable, passed as the first constructor argument makes the pipe
\* schema-bound, and transform calls that schema's validate on the input
C12_AnyStandardSchemaBinds ==
  "std" \in DOMAIN args[1]
  => /\ pipe.schema = args[1].std
     /\ \A c \in Slots :
          calls[c].pc # "idle"
          => calls[c].validateCalls =
               <<[schema |-> args[1].std, value |-> calls[c].value]>>

\* C13 as stated: the options record passed as the second argument is the
\* pipe's configuration, when a schema is the first argument and when the
\* first argument is left undefined
C13_SecondArgumentIsConfiguration ==
  (/\ "opts" \in DOMAIN args[2]
   /\ \/ args[1] = ArgUndefined
      \/ "std" \in DOMAIN args[1])
  => pipe.options = args[2].opts

\* the schema each DTO class of the application was made from by
\* createStandardDto, directly or through the class it extends
MadeFrom ==
  [t \in {"UserZodDto", "SubUserZodDto", "BothDto", "UserValibotDto"} |->
     IF t = "UserValibotDto" THEN "UserValibotSchema" ELSE "UserZodSchema"]

\* C14: the class createStandardDto(s) returns, and every subclass of it,
\* has s itself as its static schema, also after validations through the DTO
C14_DtoSchemaIsTheSchemaPassed ==
  \A t \in DOMAIN MadeFrom : StaticSchema(t) = MadeFrom[t]

\* an argument was validated through a subclass of a createStandardDto
\* class, whose static schema is still the schema the class was made from
C14_Witness ==
  \E c \in Slots :
    /\ Completed(c)
    /\ ~SchemaBound
    /\ calls[c].metadata.metatype = "SubUserZodDto"
    /\ calls[c].validateCalls = <<[schema |-> "UserZodSchema",
                                   value |-> calls[c].value]>>
    /\ StaticSchema("SubUserZodDto") = "UserZodSchema"

\* the schema a type carries: none for an absent type, a primitive wrapper
\* or a class without schema; else the static schema, else the decorator's
SchemaOfType(t) ==
  IF Unresolvable(t) THEN Undefined
  ELSE IF StaticSchema(t) # Undefined THEN StaticSchema(t)
  ELSE GetMetadata(t)

\* the call in slot c resolved schema s (possibly none) and validated its
\* value with exactly that
ResolvedFrom(c, s) ==
  /\ calls[c].schema = s
  /\ calls[c].validateCalls =
       IF s = Undefined THEN <<>>
       ELSE <<[schema |-> s, value |-> calls[c].value]>>

\* the argument of the call in slot c is skipped as a custom argument
SkippedAsCustom(c) ==
  calls[c].metadata.type = "custom" /\ ~CustomEnabled

\* C15 as stated: on a type-driven pipe every call resolves its schema from
\* expectedType when that is configured, whatever the metatype, and from
\* the metatype otherwise
C15_Original ==
  \A c \in Slots :
    (~SchemaBound /\ calls[c].pc # "idle")
    => IF Has(pipe.options, "expectedType")
         THEN ResolvedFrom(c, SchemaOfType(pipe.options.expectedType))
       ELSE ResolvedFrom(c, SchemaOfType(calls[c].metadata.metatype))

\* C15 amended: on a type-driven pipe every call whose argument is not
\* skipped as a custom argument resolves its schema from expectedType when
\* that is configured, whatever the metatype (absent, primitive, or a class
\* with another schema), and from the metatype otherwise
C15_ExpectedTypeOverridesMetatype ==
  \A c \in Slots :
    (/\ ~SchemaBound
     /\ calls[c].pc # "idle"
     /\ ~SkippedAsCustom(c))
    => IF Has(pipe.options, "expectedType")
         THEN ResolvedFrom(c, SchemaOfType(pipe.options.expectedType))
       ELSE ResolvedFrom(c, SchemaOfType(calls[c].metadata.metatype))

\* a body argument whose metatype is a DTO of one schema was validated with
\* the other schema, the one of the configured expectedType
C15_Witness ==
  \E c \in Slots :
    /\ ~SchemaBound
    /\ Completed(c)
    /\ calls[c].metadata = [type |-> "body", metatype |-> "UserZodDto"]
    /\ Has(pipe.options, "expectedType")
    /\ pipe.options.expectedType = "DecoratedDto"
    /\ calls[c].validateCalls = <<[schema |-> "UserValibotSchema",
                                   value |-> calls[c].value]>>

\* the values the serializer hands to the response schema: the returned
\* value, or each element of the returned collection
Validated(shape, ret) ==
  IF shape.kind = "array" THEN {ret[i] : i \in DOMAIN ret} ELSE {ret}

\* the values among those that the response schema rejects
RejectedBySchema(shape, ret) ==
  {v \in Validated(shape, ret) : HasIssues(Validate(ResponseSchema, v))}

\* C16: when the declared response schema rejects the returned value, or an
\* element of the returned collection, nothing is sent as the response: the
\* request ends in an error that carries the issues the schema reported
C16_RejectedResponseIsAnError ==
  (/\ Intercepted
   /\ resp.shape.kind # "none"
   /\ RejectedBySchema(resp.shape, resp.ret) # {})
  => /\ resp.pc = "failed"
     /\ "response" \notin DOMAIN resp
     /\ \E v \in RejectedBySchema(resp.shape, resp.ret) :
          resp.issues = Validate(ResponseSchema, v).issues.list

\* a collection whose first element the schema accepts and whose second it
\* rejects has ended in an error, with the issues of the second
C16_Witness ==
  /\ resp.pc = "failed"
  /\ resp.shape.kind = "array"
  /\ Len(resp.ret) = 2
  /\ ~HasIssues(Validate(ResponseSchema, resp.ret[1]))
  /\ HasIssues(Validate(ResponseSchema, resp.ret[2]))
  /\ resp.issues = Validate(ResponseSchema, resp.ret[2]).issues.list

\* C17: for a handler without response-shape metadata the serializer sends
\* the returned value itself and calls no schema's validate
C17_NoShapeFallsThrough ==
  (Intercepted /\ resp.shape.kind = "none")
  => /\ resp.pc = "sent"
     /\ resp.response = resp.ret
     /\ resp.validateCalls = <<>>

\* a value that each response DTO of the application would reject or filter
\* was sent as the handler returned it
C17_Witness ==
  /\ resp.pc = "sent"
  /\ resp.shape.kind = "none"
  /\ resp.validateCalls = <<>>
  /\ resp.response = resp.ret
  /\ \A d \in ResponseDtos :
       LET outcome == Validate(StaticSchema(d), resp.ret) IN
       HasIssues(outcome) \/ outcome.value # resp.ret

\* the handler has been invoked for the request of slot c
HandlerInvoked(c) == "handlerArg" \in DOMAIN calls[c]

\* the schema the call in slot c resolved reported issues for its value
SchemaReportedIssues(c) ==
  /\ calls[c].pc # "idle"
  /\ calls[c].schema # Undefined
  /\ HasIssues(Validate(calls[c].schema, calls[c].value))

\* in every state: a handler that was invoked was given the value transform
\* returned, after transform returned and not for a value the schema
\* reported issues for; a response to a call whose schema reported issues is
\* the error transform threw
C18_StateOrdering ==
  \A c \in Slots :
    /\ HandlerInvoked(c) =>
         /\ calls[c].pc = "returned"
         /\ calls[c].handlerArg = calls[c].result
         /\ ~SchemaReportedIssues(c)
    /\ SchemaReportedIssues(c) /\ "response" \in DOMAIN calls[c] =>
         /\ calls[c].pc = "thrown"
         /\ calls[c].response.status = calls[c].error.status
         /\ calls[c].response.body = calls[c].error.response

\* in every step: the handler is invoked only in a step that starts with
\* transform already returned, and stays uninvoked once transform has thrown
C18_StepOrdering ==
  \A c \in Slots :
    /\ (~HandlerInvoked(c) /\ HandlerInvoked(c)') =>
         /\ calls[c].pc = "returned"
         /\ calls[c]'.handlerArg = calls[c].result
    /\ calls[c].pc = "thrown" => ~HandlerInvoked(c)'

\* C18: for every request the handler is invoked only after transform has
\* resolved, and with the value transform returned; when transform throws
\* because the schema reported issues the handler is never invoked for that
\* request and the thrown error is the response
C18_HandlerOnlyAfterTransform ==
  [](C18_StateOrdering) /\ [][C18_StepOrdering]_vars

\* the handler was invoked with the schema's value, which is not the input
C18_Witness ==
  \E c \in Slots :
    /\ HandlerInvoked(c)
    /\ calls[c].schema # Undefined
    /\ calls[c].handlerArg = Validate(calls[c].schema, calls[c].value).value
    /\ calls[c].handlerArg # calls[c].value

\* the default structured error was the response to a request whose value
\* the schema rejected, and the handler was not invoked
C18_WitnessRejected ==
  \E c \in Slots :
    /\ SchemaReportedIssues(c)
    /\ "response" \in DOMAIN calls[c]
    /\ ~HandlerInvoked(c)
    /\ calls[c].response.body.message = "Validation failed"

\* the call of transform(value, metadata) run alone on the pipe: to its
\* return, or through its await to the end
SoloRun(value, metadata) ==
  LET first == transformCall(pipe, value, metadata) IN
  IF first.pc = "awaiting" THEN transformAwaited(pipe, first) ELSE first

\* C19: with any number of calls in flight on one pipe and in whatever order
\* they resume, each call resolves the schema, hands validate the value and
\* returns or throws exactly what it would when run alone with its own
\* value and metadata
C19_ConcurrentCallsIndependent ==
  \A c \in Slots :
    /\ calls[c].pc = "awaiting"
         => calls[c] = transformCall(pipe, calls[c].value, calls[c].metadata)
    /\ Completed(c)
         => calls[c] = SoloRun(calls[c].value, calls[c].metadata)

\* two calls that overlapped on a type-driven pipe, with different values
\* and different schemas, have both completed: one threw, the other returned
C19_Witness ==
  /\ ~SchemaBound
  /\ calls[1].pc = "thrown"
  /\ calls[2].pc = "returned"
  /\ calls[1].schema # Undefined
  /\ calls[2].schema # Undefined
  /\ calls[1].schema # calls[2].schema
  /\ calls[1].value # calls[2].value
  /\ calls[2].result # calls[2].value

\* C20: after any sequence of transform calls the pipe's schema (present or
\* absent) and its options are what the constructor set; no step of a call
\* changes them, so a schema-bound pipe stays schema-bound and a type-driven
\* pipe type-driven
C20_PipeFixedAtConstruction ==
  /\ [](pipe = Constructor(args[1], args[2]))
  /\ [][pipe' = pipe /\ (SchemaBound' <=> SchemaBound)]_vars

\* a type-driven pipe with options has resolved a schema for a call and
\* validated with it, and is still type-driven with the same options
C20_Witness ==
  \E c \in Slots :
    /\ Completed(c)
    /\ calls[c].schema # Undefined
    /\ calls[c].validateCalls # <<>>
    /\ ~SchemaBound
    /\ pipe.options # Empty
    /\ pipe = Constructor(args[1], args[2])

\* the call in slot c looked a schema up on a class: the pipe is
\* type-driven, the argument is not skipped as custom and the effective
\* type is a class
LookedUpOn(c, t) ==
  /\ ~SchemaBound
  /\ calls[c].pc # "idle"
  /\ ~SkippedAsCustom(c)
  /\ t = EffectiveType(calls[c].metadata)
  /\ t \in Classes

\* C21: the lookup on a class takes the static schema when the class has
\* one, whether or not it also carries decorator metadata; the schema of the
\* decorator metadata when it has only that; and none, so that the input is
\* returned unvalidated, when it has neither
C21_StaticBeforeDecorator ==
  \A c \in Slots : \A t \in Classes :
    LookedUpOn(c, t)
    => /\ StaticSchema(t) # Undefined
            => ResolvedFrom(c, StaticSchema(t))
       /\ StaticSchema(t) = Undefined /\ GetMetadata(t) # Undefined
            => ResolvedFrom(c, GetMetadata(t))
       /\ StaticSchema(t) = Undefined /\ GetMetadata(t) = Undefined
            => PassedThrough(c)

\* a class with a static schema and decorator metadata naming another
\* schema was validated with the static one
C21_Witness ==
  \E c \in Slots :
    /\ Completed(c)
    /\ LookedUpOn(c, "BothDto")
    /\ StaticSchema("BothDto") # Undefined
    /\ GetMetadata("BothDto") # Undefined
    /\ GetMetadata("BothDto") # StaticSchema("BothDto")
    /\ calls[c].validateCalls = <<[schema |-> StaticSchema("BothDto"),
                                   value |-> calls[c].value]>>

\* C22: on a type-driven pipe a call whose effective type (expectedType
\* when configured, else the metatype) is absent or one of String, Boolean,
\* Number, Array, Object resolves no schema and returns its input unchanged
\* without validating, whatever the kind of the argument
C22_AbsentOrPrimitiveTypeSkips ==
  \A c \in Slots :
    (/\ ~SchemaBound
     /\ calls[c].pc # "idle"
     /\ EffectiveType(calls[c].metadata) \in {Undefined} \cup Primitives)
    => /\ calls[c].schema = Undefined
       /\ PassedThrough(c)

\* a custom argument of a pipe that validates custom arguments, whose
\* metatype is a DTO its value does not satisfy, was returned unchanged
\* because the configured expectedType is String
C22_Witness ==
  \E c \in Slots :
    /\ ~SchemaBound
    /\ CustomEnabled
    /\ PassedThrough(c)
    /\ calls[c].metadata = [type |-> "custom", metatype |-> "UserZodDto"]
    /\ EffectiveType(calls[c].metadata) = "String"
    /\ HasIssues(Validate("UserZodSchema", calls[c].value))

\* the stub schema that produces the same outcome and hands it over directly
SyncTwin(s) == StubSchema("sync", Stub(s).outcome)

\* the call in slot c, had its schema handed the outcome over directly
SyncRun(c) ==
  transformAwaited(pipe, callValidate(calls[c].value, calls[c].metadata,
                                      SyncTwin(calls[c].schema)))

\* the call in slot c validated with a schema whose validate returns a
\* promise that resolves to an outcome
ValidatedAsync(c) ==
  /\ calls[c].pc # "idle"
  /\ calls[c].schema \in StubSchemas
  /\ Delivery(calls[c].schema) = "async"

\* C23: a call whose schema hands its outcome over through a promise
\* returns the same value, or throws the same error after the same
\* exceptionFactory calls, as it would had validate returned that outcome
\* directly, for every outcome
C23_SyncAndAsyncAlike ==
  \A c \in Slots :
    (ValidatedAsync(c) /\ Completed(c))
    => /\ Outcome(calls[c]) = Outcome(SyncRun(c))
       /\ calls[c].factoryCalls = SyncRun(c).factoryCalls

\* a call has thrown the error of the exceptionFactory for issues that came
\* through a promise
C23_Witness ==
  \E c \in Slots :
    /\ ValidatedAsync(c)
    /\ calls[c].pc = "thrown"
    /\ FactoryConfigured
    /\ calls[c].factoryCalls = <<StubIssues>>
    /\ Outcome(calls[c]) = Outcome(SyncRun(c))

\* C24: every call of transform that resolved a schema has called its
\* validate exactly once, with the value as received, while it is suspended
\* and after it returned or threw; a call that resolved none has not called
\* validate; and this is so for a call whose value another call on the same
\* pipe has already had validated
C24_ValidateOncePerCall ==
  \A c \in Slots :
    calls[c].pc # "idle"
    => /\ calls[c].schema # Undefined
            => calls[c].validateCalls =
                 <<[schema |-> calls[c].schema, value |-> calls[c].value]>>
       /\ calls[c].schema = Undefined => calls[c].validateCalls = <<>>

\* two calls with the same value and the same schema have both completed by
\* throwing, each after one validate call of its own
C24_Witness ==
  /\ calls[1].pc = "thrown"
  /\ calls[2].pc = "thrown"
  /\ calls[1].value = calls[2].value
  /\ calls[1].schema = calls[2].schema
  /\ Len(calls[1].validateCalls) = 1
  /\ Len(calls[2].validateCalls) = 1

\* the call in slot c called a validate whose promise never settles
NeverSettles(c) ==
  /\ calls[c].pc # "idle"
  /\ calls[c].schema \in StubSchemas
  /\ Delivery(calls[c].schema) = "never"

\* a call whose validation never settles stays suspended
C25_StallsWithValidation == \A c \in Slots : NeverSettles(c) => calls[c].pc = "awaiting"

\* a suspended call completes only in a step that starts with its promise
\* settled
C25_CompletesAfterSettled ==
  \A c \in Slots :
    (calls[c].pc = "awaiting" /\ calls[c]'.pc \in {"returned", "thrown"})
    => "pending" \notin DOMAIN calls[c]

\* C25: transform has no timeout: a call never completes before the promise
\* it awaits has settled; when that promise never settles the call never
\* completes; and when validation settles eventually, every call eventually
\* returns or throws
C25_NoTimeout ==
  /\ [](C25_StallsWithValidation)
  /\ [][C25_CompletesAfterSettled]_vars
  /\ \A c \in Slots :
       (calls[c].pc = "awaiting" /\ ~NeverSettles(c)) ~> Completed(c)

\* a call is suspended on a validation that never settles
C25_Witness ==
  \E c \in Slots :
    /\ NeverSettles(c)
    /\ calls[c].pc = "awaiting"
    /\ "pending" \in DOMAIN calls[c]

\* the validate the call in slot c called threw, or returned a promise that
\* rejects
ValidateFails(c) ==
  /\ calls[c].pc # "idle"
  /\ calls[c].schema \in StubSchemas
  /\ Delivery(calls[c].schema) \in {"throws", "rejects"}

\* C26: when validate throws or its promise rejects, transform throws that
\* very error: no exceptionFactory call is made and the error is the same
\* whatever errorHttpStatusCode and exceptionFactory are configured
C26_ValidatorErrorPropagates ==
  \A c \in Slots :
    (ValidateFails(c) /\ Completed(c))
    => /\ calls[c].pc = "thrown"
       /\ calls[c].error = ValidatorError
       /\ ~InstanceOfHttpException(calls[c].error)
       /\ calls[c].factoryCalls = <<>>

\* a pipe with an exceptionFactory and a status has thrown the error its
\* schema's promise rejected with
C26_Witness ==
  \E c \in Slots :
    /\ ValidateFails(c)
    /\ Delivery(calls[c].schema) = "rejects"
    /\ FactoryConfigured
    /\ Has(pipe.options, "errorHttpStatusCode")
    /\ calls[c].pc = "thrown"
    /\ calls[c].error = ValidatorError

\* the call in slot c has completed after its validate produced the named
\* outcome, directly or through a promise
CompletedWith(c, outcome) ==
  /\ Completed(c)
  /\ calls[c].schema \in StubSchemas
  /\ Stub(calls[c].schema).outcome = outcome

\* C27: an outcome whose issues are a list makes transform throw, also when
\* the list is empty (the default error then has errors = <<>>) and also
\* when the outcome carries a value, which is not returned; an outcome
\* without issues field, or whose issues are undefined or null, makes
\* transform return the outcome's value
C27_IssuesListDecides ==
  \A c \in Slots :
    /\ \A o \in {"emptyIssues", "issues", "issuesAndValue"} :
         CompletedWith(c, o)
         => /\ calls[c].pc = "thrown"
            /\ "result" \notin DOMAIN calls[c]
            /\ ~FactoryConfigured =>
                 /\ calls[c].error.response.message = "Validation failed"
                 /\ Len(calls[c].error.response.errors)
                      = IF o = "emptyIssues" THEN 0 ELSE Len(StubIssues)
    /\ \A o \in {"success", "undefinedIssues", "nullIssues"} :
         CompletedWith(c, o)
         => /\ calls[c].pc = "returned"
            /\ calls[c].result = StubValue

\* the default error with an empty errors list was thrown for an outcome
\* whose issues are the empty list
C27_Witness ==
  \E c \in Slots :
    /\ CompletedWith(c, "emptyIssues")
    /\ ~FactoryConfigured
    /\ calls[c].pc = "thrown"
    /\ calls[c].error.response.errors = <<>>

\* the body the pipe builds when no exceptionFactory is configured
IsDefaultBody(response) ==
  /\ DOMAIN response = {"statusCode", "message", "errors"}
  /\ response.message = "Validation failed"

\* C28: with an exceptionFactory configured, a call whose schema reported
\* issues has invoked the factory exactly once, with all the issues in the
\* order reported, and has not thrown the default body; a call that is
\* suspended, that succeeded or that validated nothing has not invoked it
C28_FactoryOncePerFailure ==
  \A c \in Slots :
    (FactoryConfigured /\ calls[c].pc # "idle")
    => IF Rejected(c)
         THEN /\ calls[c].factoryCalls =
                   <<Validate(calls[c].schema, calls[c].value).issues.list>>
              /\ calls[c].pc = "thrown"
              /\ ~IsDefaultBody(calls[c].error.response)
       ELSE calls[c].factoryCalls = <<>>

\* the factory was invoked once with two issues, in the order the fields
\* are declared, and the error thrown carries the factory's object
C28_Witness ==
  \E c \in Slots :
    /\ FactoryConfigured
    /\ Rejected(c)
    /\ Len(calls[c].factoryCalls) = 1
    /\ Len(calls[c].factoryCalls[1]) = 2
    /\ calls[c].factoryCalls[1] =
         Validate(calls[c].schema, calls[c].value).issues.list
    /\ ~IsDefaultBody(calls[c].error.response)

\* the call transform(value, metadata) run alone on pipe p
RunOn(p, value, metadata) ==
  LET first == transformCall(p, value, metadata) IN
  IF first.pc = "awaiting" THEN transformAwaited(p, first) ELSE first

\* the pipe with validateCustomDecorators left out, false or true
WithCustomFlag(v) ==
  LET rest == [k \in DOMAIN pipe.options \ {"validateCustomDecorators"} |->
                 pipe.options[k]]
  IN [schema |-> pipe.schema,
      options |-> rest @@ Field("validateCustomDecorators", v # Undefined,
                                v = "true")]

\* C29: on a type-driven pipe a call for a body, query or param argument
\* ends as the same call does on the pipe that differs only in
\* validateCustomDecorators, be it unset, false or true: same validate
\* call, same returned value or thrown error
C29_FlagOnlyForCustom ==
  \A c \in Slots :
    (/\ ~SchemaBound
     /\ Completed(c)
     /\ calls[c].metadata.type \in {"body", "query", "param"})
    => \A v \in {Undefined, "false", "true"} :
         LET other == RunOn(WithCustomFlag(v), calls[c].value,
                            calls[c].metadata)
         IN /\ Outcome(calls[c]) = Outcome(other)
            /\ calls[c].validateCalls = other.validateCalls

\* a query argument was rejected by the schema of its DTO on a pipe whose
\* validateCustomDecorators is false
C29_Witness ==
  \E c \in Slots :
    /\ ~SchemaBound
    /\ Has(pipe.options, "validateCustomDecorators")
    /\ ~pipe.options.validateCustomDecorators
    /\ calls[c].pc = "thrown"
    /\ calls[c].metadata.type = "query"
    /\ calls[c].validateCalls # <<>>
    /\ Outcome(calls[c]) =
         Outcome(RunOn(WithCustomFlag("true"), calls[c].value,
                       calls[c].metadata))

\* the static `schema` of the effective type of the call in slot c is a
\* truthy value without '~standard'
BrokenStatic(c) ==
  /\ ~SchemaBound
  /\ calls[c].pc # "idle"
  /\ ~SkippedAsCustom(c)
  /\ EffectiveType(calls[c].metadata) \in StubClasses
  /\ StaticSchema(EffectiveType(calls[c].metadata)) = NotASchema

\* C30: a type-driven pipe takes the truthy static `schema` of the
\* effective type as it is: when it has no '~standard', transform does not
\* return the input but throws, before any validate call, an error that is
\* no HttpException, whatever decorator metadata the type carries besides
\* and whatever error options are configured
C30_StaticSchemaUnchecked ==
  \A c \in Slots :
    BrokenStatic(c)
    => /\ calls[c].schema = NotASchema
       /\ calls[c].pc = "thrown"
       /\ calls[c].error = TypeError
       /\ ~InstanceOfHttpException(calls[c].error)
       /\ calls[c].validateCalls = <<>>
       /\ calls[c].factoryCalls = <<>>

\* a pipe with an exceptionFactory has thrown the TypeError for a class
\* whose static `schema` is no schema although its decorator metadata is one
C30_Witness ==
  \E c \in Slots :
    /\ BrokenStatic(c)
    /\ FactoryConfigured
    /\ calls[c].metadata.metatype = "BrokenBothDto"
    /\ GetMetadata("BrokenBothDto") \in StubSchemas
    /\ calls[c].pc = "thrown"
    /\ calls[c].error = TypeError

====
